---- MODULE Spec2Model ----
(***************************************************************************)
(* A model of eighty4/poultry: the command line's accumulation of search   *)
(* qualifiers (lib/bin.ts), the construction of the search URL and the     *)
(* page sync pipeline search -> batched content fetch -> write             *)
(* (lib/poultry.ts).                                                       *)
(*                                                                         *)
(* A string is a sequence of one-character strings, so that the code's     *)
(* string operations (template literals, join, replaceAll, startsWith,     *)
(* parseInt) are computed and not assumed.  Property names and the tags of *)
(* values are plain strings.                                               *)
(***************************************************************************)
EXTENDS Integers, Sequences, FiniteSets, TLC

VARIABLES
    qualifiers,      \* bin.ts: the qualifiers object, as its entries in insertion order
    url,             \* the search URL's parameters (None before makeSearchURL ran)
    pc,              \* where syncSearchPage stands
    page,            \* syncOpts.page
    requests,        \* the HTTP requests sent so far, in order
    inflight,        \* the request whose response is awaited
    response,        \* status and headers of the response classified last
    searchResponse,  \* syncSearchPage's local searchResponse
    qKeys,           \* retrieveObjectContents' local qKeys
    remote,          \* what the remote repositories hold for the files asked for
    contents,        \* syncSearchPage's local contents
    dirs,            \* directories mkdir created
    writes,          \* syncToOutdir's local writes: the writeFile promises
    files,           \* the files of the file system: path -> data
    result           \* what syncSearchPage returned

vars == <<qualifiers, url, pc, page, requests, inflight, response,
          searchResponse, qKeys, remote, contents, dirs, writes, files, result>>

syncVars == <<pc, page, requests, inflight, response, searchResponse, qKeys,
              remote, contents, dirs, writes, files, result>>

----------------------------------------------------------------------------
(* Bounds of the model *)

MaxArgs == 3    \* search options given on the command line
MaxItems == 2   \* matched items on one search page
MaxPage == 2    \* largest page number asked for

----------------------------------------------------------------------------
(* JavaScript values *)

None == [t |-> "none"]             \* not assigned yet (model only)
Undefined == [t |-> "undefined"]
Null == [t |-> "null"]
Str(s) == [t |-> "string", v |-> s]
Num(n) == [t |-> "number", v |-> n]

Arr(a) == [t |-> "array", v |-> a]

\* ToBoolean, as used by `if (x)`, `!x`, `x || y` and `x ? a : b`;
\* a value without a tag is an object, which is truthy
Truthy(x) ==
    IF "t" \notin DOMAIN x THEN TRUE
    ELSE CASE x.t = "undefined" -> FALSE
           [] x.t = "null" -> FALSE
           [] x.t = "string" -> x.v # <<>>
           [] x.t = "number" -> x.v # 0
           [] OTHER -> TRUE

\* x == null, the test behind `?.`
Nullish(x) == "t" \in DOMAIN x /\ x.t \in {"undefined", "null"}

\* obj.f, undefined when obj has no such property
Field(obj, f) == IF f \in DOMAIN obj THEN obj[f] ELSE Undefined

\* x || y
Or(x, y) == IF Truthy(x) THEN x ELSE y

StartsWith(s, prefix) ==
    /\ Len(s) >= Len(prefix)
    /\ SubSeq(s, 1, Len(prefix)) = prefix

\* Array.prototype.join
RECURSIVE Join(_, _)
Join(parts, sep) ==
    IF parts = <<>> THEN <<>>
    ELSE IF Len(parts) = 1 THEN parts[1]
    ELSE parts[1] \o sep \o Join(Tail(parts), sep)

----------------------------------------------------------------------------
(* bin.ts: collecting the search options *)

QualifierNames == {<<"o", "r", "g">>, <<"u", "s", "e", "r">>, <<"r", "e", "p", "o">>}
QualifierValues == {<<"a">>, <<"b", " ", "4">>}

Scalar(v) == [array |-> FALSE, v |-> v]
Array(vs) == [array |-> TRUE, v |-> vs]

HasField(qs, field) == \E k \in DOMAIN qs : qs[k].name = field
FieldIndex(qs, field) == CHOOSE k \in DOMAIN qs : qs[k].name = field

\* addSearchOption(field, value) on the qualifiers object qs
addSearchOption(qs, field, value) ==
    IF HasField(qs, field)
    THEN LET k == FieldIndex(qs, field) IN
         IF qs[k].value.array
         THEN [qs EXCEPT ![k].value = Array(Append(qs[k].value.v, value))]
         ELSE [qs EXCEPT ![k].value = Array(<<qs[k].value.v, value>>)]
    ELSE Append(qs, [name |-> field, value |-> Scalar(value)])

----------------------------------------------------------------------------
(* poultry.ts: makeSearchURL *)

PerPage == 100

\* the tokens pushed for one entry [qk, qv] of Object.entries(opts.qualifiers)
RECURSIVE PushEach(_, _, _)
PushEach(q, qk, qv) ==
    IF qv = <<>> THEN q
    ELSE PushEach(Append(q, qk \o <<":">> \o Head(qv)), qk, Tail(qv))

\* Array.prototype.toString, which a template literal applies to an array
ArrayToString(vs) == Join(vs, <<",">>)

QualifierTokens_noArrays(q, entry) ==
    Append(q, entry.name \o <<":">> \o
              (IF entry.value.array THEN ArrayToString(entry.value.v)
               ELSE entry.value.v))

QualifierTokens(q, entry) ==
    IF entry.value.array
    THEN PushEach(q, entry.name, entry.value.v)
    ELSE Append(q, entry.name \o <<":">> \o entry.value.v)

RECURSIVE SearchTokens(_, _)
SearchTokens(q, entries) ==
    IF entries = <<>> THEN q
    ELSE SearchTokens(QualifierTokens(q, Head(entries)), Tail(entries))

makeSearchURL(qs) ==
    [q |-> Join(SearchTokens(<<>>, qs), <<" ">>),
     per_page |-> PerPage,
     page |-> 1]

----------------------------------------------------------------------------
(* The command line up to the search URL *)

InitSync ==
    /\ pc = "idle"
    /\ page = None
    /\ requests = <<>>
    /\ inflight = None
    /\ response = None
    /\ searchResponse = None
    /\ qKeys = <<>>
    /\ remote = None
    /\ contents = None
    /\ dirs = {}
    /\ writes = <<>>
    /\ files = <<>>
    /\ result = None

InitURL ==
    /\ qualifiers = <<>>
    /\ url = None
    /\ InitSync

\* how many search options the command line gave so far
RECURSIVE OptionCount(_)
OptionCount(qs) ==
    IF qs = <<>> THEN 0
    ELSE (IF Head(qs).value.array THEN Len(Head(qs).value.v) ELSE 1)
         + OptionCount(Tail(qs))

AddSearchOption ==
    /\ url = None
    /\ OptionCount(qualifiers) < MaxArgs
    /\ \E field \in QualifierNames, value \in QualifierValues :
           qualifiers' = addSearchOption(qualifiers, field, value)
    /\ UNCHANGED <<url, syncVars>>

MakeSearchURL ==
    /\ url = None
    /\ qualifiers # <<>>
    /\ url' = makeSearchURL(qualifiers)
    /\ UNCHANGED <<qualifiers, syncVars>>

NextURL == AddSearchOption \/ MakeSearchURL

SpecURL == InitURL /\ [][NextURL]_vars

----------------------------------------------------------------------------
(* poultry.ts: the classification of a response, errorFromGitHubResponse *)

AppJson == <<"a", "p", "p", "l", "i", "c", "a", "t", "i", "o", "n", "/",
             "j", "s", "o", "n">>
AppJsonUtf8 == AppJson \o <<";", " ", "c", "h", "a", "r", "s", "e", "t", "=",
                            "u", "t", "f", "-", "8">>
TextHtml == <<"t", "e", "x", "t", "/", "h", "t", "m", "l">>

Digits == <<"0", "1", "2", "3", "4", "5", "6", "7", "8", "9">>
IsDigit(c) == \E d \in DOMAIN Digits : Digits[d] = c
DigitValue(c) == (CHOOSE d \in DOMAIN Digits : Digits[d] = c) - 1

\* parseInt(s, 10) of a string of digits: the digits read left to right
RECURSIVE ParseDigits(_, _)
ParseDigits(s, acc) ==
    IF s = <<>> \/ ~IsDigit(Head(s)) THEN acc
    ELSE ParseDigits(Tail(s), acc * 10 + DigitValue(Head(s)))

parseInt(s) == ParseDigits(s, 0)

\* A time value (milliseconds since the epoch) is kept as its whole seconds
\* and the milliseconds left, since time values exceed the 32-bit integers
\* of the model checker.
TimeValue_unscaled(n) == [sec |-> n \div 1000, ms |-> n % 1000]

\* n * 1000 as a time value
TimeValue(n) == [sec |-> n, ms |-> 0]

\* new Date(timeValue)
NewDate(tv) == [t |-> "date", time |-> tv]

Exit == [t |-> "exit"]    \* process.exit(1): nothing is returned
Unauthorized == [kind |-> "error", type |-> "unauthorized"]
RateLimited(reset) == [kind |-> "error", type |-> "rate-limited", reset |-> reset]

IsJsonResponse(r) ==
    /\ ~Nullish(r.contentType)
    /\ StartsWith(r.contentType.v, AppJson)

errorFromGitHubResponse(r) ==
    IF ~IsJsonResponse(r) THEN Exit
    ELSE IF r.status = 401 THEN Unauthorized
    ELSE IF r.status = 403
    THEN LET rateLimitReset == r.rateLimitReset IN
         RateLimited(IF Truthy(rateLimitReset)
                     THEN NewDate(TimeValue(parseInt(rateLimitReset.v)))
                     ELSE Null)
    ELSE Undefined

isErrorResult_unauthorizedOnly(x) ==
    /\ ~Nullish(x)
    /\ "kind" \in DOMAIN x
    /\ x.kind = "error"
    /\ x.type = "unauthorized"

isErrorResult(x) ==
    /\ ~Nullish(x)
    /\ "kind" \in DOMAIN x
    /\ x.kind = "error"

----------------------------------------------------------------------------
(* The remote service *)

ItemA == [owner |-> <<"o">>, repo |-> <<"r">>,
          path |-> <<"a", "/", "b", "/", "c", ".", "s", "q", "l">>]
ItemB == [owner |-> <<"o">>, repo |-> <<"r">>,
          path |-> <<"a", "_", "b", "/", "c", ".", "s", "q", "l">>]
ItemD == [owner |-> <<"p">>, repo |-> <<"r">>,
          path |-> <<"a", "/", "b", "/", "c", ".", "s", "q", "l">>]
Items == {ItemA, ItemB, ItemD}

\* the items of one search page: up to MaxItems files, each matched once
ItemLists ==
    {s \in UNION {[1..n -> Items] : n \in 0..MaxItems} :
        \A i, j \in DOMAIN s : i # j => s[i] # s[j]}

TotalCounts == {0, 100, 101, 250}

\* the body of a successful search
SearchBodies ==
    {[total_count |-> n, items |-> Arr(its)] :
        n \in TotalCounts, its \in ItemLists} \ 
    {[total_count |-> 0, items |-> Arr(its)] : its \in ItemLists \ {<<>>}}

\* the body of a failed request
MessageBody == [message |-> <<"n", "o">>]

Statuses == {200, 401, 403, 422}
ContentTypes == {Null, Str(TextHtml), Str(AppJson), Str(AppJsonUtf8)}
ResetHeaders ==
    {Null, Str(<<"1", "7", "0", "0", "0", "0", "0", "0", "0", "0">>),
     Str(<<"8", "6", "4", "6", "1">>)}

\* responses that carry no data
PlainResponses ==
    {[status |-> st, contentType |-> ct, rateLimitReset |-> rr,
      body |-> MessageBody] :
        st \in Statuses, ct \in ContentTypes, rr \in ResetHeaders}

DataResponse(body) ==
    [status |-> 200, contentType |-> Str(AppJsonUtf8),
     rateLimitReset |-> Str(<<"1", "7", "0", "0", "0", "0", "0", "0", "0", "0">>),
     body |-> body]

\* what a repository holds at HEAD:<path>, as the aliased sub-query reports it
RepositoryNotFound == Null
ObjectNotFound == [object |-> Null]
Blob(text) == [object |-> [text |-> text]]
Lookups ==
    {RepositoryNotFound, ObjectNotFound, Blob(Null), Blob(Str(<<>>)),
     Blob(Str(<<"X">>)), Blob(Str(<<"Y">>))}

HeadPrefix == <<"H", "E", "A", "D", ":">>

\* the file a sub-query addresses
Addressed(part) ==
    [owner |-> part.owner, repo |-> part.name,
     path |-> SubSeq(part.expression, Len(HeadPrefix) + 1, Len(part.expression))]

\* the data of a batch response: each alias with the result of its sub-query
GraphData(parts, rem) ==
    [k \in {parts[i].alias : i \in DOMAIN parts} |->
        rem[Addressed(parts[CHOOSE i \in DOMAIN parts : parts[i].alias = k])]]

----------------------------------------------------------------------------
(* poultry.ts: retrieveObjectContents *)

\* `q${randomUUID().replaceAll('-', '')}`: randomUUID() yields a value no
\* earlier call yielded; the keys are opaque and stand for property names
KeyNames == <<"q1", "q2", "q3", "q4", "q5">>
Keys == {KeyNames[n] : n \in 1..MaxItems}
KeyLists(n) ==
    {s \in [1..n -> Keys] : \A i, j \in 1..n : i # j => s[i] # s[j]}

graphQueryForObjectText(key, owner, repo, path) ==
    [alias |-> key, owner |-> owner, name |-> repo,
     expression |-> HeadPrefix \o path]

\* the first loop: one sub-query per item, under that item's key
QueryParts(keys, items) ==
    [i \in DOMAIN items |->
        graphQueryForObjectText(keys[i], items[i].owner, items[i].repo,
                                items[i].path)]

\* json.data[key].object?.text || null
ObjectText_nullish(entry) ==
    LET object == Field(entry, "object")
        text == IF Nullish(object) THEN Undefined ELSE Field(object, "text")
    IN IF Nullish(text) THEN Null ELSE text

ObjectText(entry) ==
    LET object == Field(entry, "object")
        text == IF Nullish(object) THEN Undefined ELSE Field(object, "text")
    IN Or(text, Null)

\* the second loop throws a TypeError when json.data is undefined or when
\* json.data[key] is null
ReadThrows(keys, json) ==
    /\ keys # <<>>
    /\ \/ Nullish(Field(json, "data"))
       \/ \E i \in DOMAIN keys : Nullish(json.data[keys[i]])

ObjectContents_reversed(keys, json) ==
    [i \in DOMAIN keys |-> ObjectText(json.data[keys[Len(keys) + 1 - i]])]

ObjectContents(keys, json) ==
    [i \in DOMAIN keys |-> ObjectText(json.data[keys[i]])]

----------------------------------------------------------------------------
(* poultry.ts: syncToOutdir *)

Outdir == <<"o", "u", "t">>

\* String.prototype.replace with a string pattern: the first occurrence only
RECURSIVE ReplaceFirst(_, _, _)
ReplaceFirst(s, c, by) ==
    IF s = <<>> THEN <<>>
    ELSE IF Head(s) = c THEN <<by>> \o Tail(s)
    ELSE <<Head(s)>> \o ReplaceFirst(Tail(s), c, by)

\* path.replaceAll(/\//g, '_')
RECURSIVE ReplaceAll(_, _, _)
ReplaceAll(s, c, by) ==
    IF s = <<>> THEN <<>>
    ELSE <<IF Head(s) = c THEN by ELSE Head(s)>> \o ReplaceAll(Tail(s), c, by)

Filename_replaceFirst(item) ==
    item.owner \o <<"_">> \o item.repo \o <<"_">>
        \o ReplaceFirst(item.path, "/", "_")

Filename_noOwner(item) ==
    item.repo \o <<"_">> \o ReplaceAll(item.path, "/", "_")

Filename(item) ==
    item.owner \o <<"_">> \o item.repo \o <<"_">>
        \o ReplaceAll(item.path, "/", "_")

\* path.join(outdir, filename), for a file name without separators
join(dir, filename) == dir \o <<"/">> \o filename

\* writeFile(path, data): a promise, pending until the write settles
writeFile(path, data) == [path |-> path, data |-> data, state |-> "pending"]

\* contents[i]
At(cs, i) ==
    IF "t" \in DOMAIN cs /\ cs.t = "array" /\ i \in DOMAIN cs.v THEN cs.v[i]
    ELSE Undefined

RECURSIVE WriteLoop_break(_, _, _, _, _)
WriteLoop_break(outdir, items, cs, i, ws) ==
    IF ~(i <= Len(items)) THEN ws
    ELSE IF ~Truthy(At(cs, i)) THEN ws
    ELSE WriteLoop_break(outdir, items, cs, i + 1,
             Append(ws, writeFile(join(outdir, Filename(items[i])), At(cs, i))))

\* the loop of lines 202-208, from index i on, with the writes pushed so far
RECURSIVE WriteLoop(_, _, _, _, _)
WriteLoop(outdir, items, cs, i, ws) ==
    IF ~(i <= Len(items)) THEN ws
    ELSE IF ~Truthy(At(cs, i)) THEN WriteLoop(outdir, items, cs, i + 1, ws)
    ELSE WriteLoop(outdir, items, cs, i + 1,
             Append(ws, writeFile(join(outdir, Filename(items[i])), At(cs, i))))

\* Promise.all(ws) rejects as soon as one of ws rejects
PromiseAllRejected(ws) == \E k \in DOMAIN ws : ws[k].state = "rejected"

PromiseAllFulfilled_any(ws) ==
    ws = <<>> \/ \E k \in DOMAIN ws : ws[k].state = "fulfilled"

\* Promise.all(ws) fulfils once all of ws fulfilled
PromiseAllFulfilled(ws) == \A k \in DOMAIN ws : ws[k].state = "fulfilled"

----------------------------------------------------------------------------
(* poultry.ts: syncSearchPage *)

PageSize == 100

PageCount_floor(total_count) == total_count \div PageSize

\* Math.ceil(total_count / 100)
PageCount(total_count) == (total_count + PageSize - 1) \div PageSize

Success(total_count, pg) ==
    LET pageCount == PageCount(total_count) IN
    [kind |-> "success",
     pages |-> [remaining |-> pageCount - Or(pg, Num(1)).v,
                total |-> pageCount]]

\* the page option: absent, or a page number
Pages == {Undefined} \cup {Num(n) : n \in 0..MaxPage}

----------------------------------------------------------------------------
(* The page sync *)

ExampleQualifiers ==
    <<[name |-> <<"u", "s", "e", "r">>, value |-> Scalar(<<"a">>)]>>

Init ==
    /\ qualifiers = ExampleQualifiers
    /\ url = makeSearchURL(ExampleQualifiers)
    /\ InitSync

\* syncSearchPage up to the await of codeSearch's fetch
SyncSearchPage ==
    /\ pc = "idle"
    /\ \E pg \in Pages :
        /\ page' = pg
        /\ url' = IF Truthy(pg) THEN [url EXCEPT !.page = pg.v] ELSE url
    /\ requests' = Append(requests, "search/code")
    /\ inflight' = [method |-> "GET", endpoint |-> "search/code", url |-> url']
    /\ pc' = "awaitSearch"
    /\ UNCHANGED <<qualifiers, response, searchResponse, qKeys, remote,
                   contents, dirs, writes, files, result>>

StatusAndHeaders(r) ==
    [status |-> r.status, contentType |-> r.contentType,
     rateLimitReset |-> r.rateLimitReset]

\* the search response arrives: codeSearch returns, and syncSearchPage runs
\* on to the await of retrieveObjectContents' fetch
SearchResponds ==
    /\ pc = "awaitSearch"
    /\ \E r \in PlainResponses \cup {DataResponse(b) : b \in SearchBodies} :
        LET maybeError == errorFromGitHubResponse(r)
            parsed == IF Truthy(maybeError) THEN maybeError ELSE r.body
            items == Field(parsed, "items")
        IN
        /\ response' = StatusAndHeaders(r)
        /\ IF maybeError = Exit
           THEN /\ pc' = "exited"
                /\ inflight' = None
                /\ UNCHANGED <<searchResponse, requests, qKeys, result>>
           ELSE /\ searchResponse' = parsed
                /\ IF isErrorResult(parsed)
                   THEN /\ pc' = "returned"
                        /\ result' = parsed
                        /\ inflight' = None
                        /\ UNCHANGED <<requests, qKeys>>
                   ELSE \* retrieveObjectContents(ghToken, searchResponse.items)
                        IF Nullish(items)
                        THEN \* `for (const item of undefined)`: a TypeError
                             /\ pc' = "rejected"
                             /\ inflight' = None
                             /\ UNCHANGED <<requests, qKeys, result>>
                        ELSE \E keys \in KeyLists(Len(items.v)) :
                             /\ qKeys' = keys
                             /\ requests' = Append(requests, "graphql")
                             /\ inflight' = [method |-> "POST",
                                             endpoint |-> "graphql",
                                             query |-> QueryParts(keys, items.v)]
                             /\ pc' = "awaitContents"
                             /\ UNCHANGED result
    /\ UNCHANGED <<qualifiers, url, page, remote, contents, dirs, writes, files>>

\* what the repositories may hold for the files a batch request asks for
RemoteStates(parts) ==
    [{Addressed(parts[i]) : i \in DOMAIN parts} -> Lookups]

Holds(rem) == [t |-> "remote", holds |-> rem]

\* the batch response arrives: retrieveObjectContents returns, and
\* syncSearchPage runs on to syncToOutdir's await of mkdir
ContentsResponds ==
    /\ pc = "awaitContents"
    /\ \E a \in {[r |-> r, rem |-> None] : r \in PlainResponses} \cup
                {[r |-> DataResponse([data |-> GraphData(inflight.query, rem)]),
                  rem |-> Holds(rem)] : rem \in RemoteStates(inflight.query)} :
        LET maybeError == errorFromGitHubResponse(a.r)
            json == a.r.body
        IN
        /\ response' = StatusAndHeaders(a.r)
        /\ remote' = a.rem
        /\ IF maybeError = Exit
           THEN /\ pc' = "exited"
                /\ UNCHANGED <<contents, result>>
           ELSE IF ~Truthy(maybeError) /\ ReadThrows(qKeys, json)
           THEN /\ pc' = "rejected"
                /\ UNCHANGED <<contents, result>>
           ELSE LET returned == IF Truthy(maybeError) THEN maybeError
                                ELSE Arr(ObjectContents(qKeys, json))
                IN
                /\ contents' = returned
                /\ IF isErrorResult(returned)
                   THEN pc' = "returned" /\ result' = returned
                   ELSE \* syncToOutdir(outdir, items, contents): mkdir
                        pc' = "awaitMkdir" /\ UNCHANGED result
    /\ inflight' = None
    /\ qKeys' = <<>>
    /\ UNCHANGED <<qualifiers, url, page, requests, searchResponse, dirs,
                   writes, files>>

\* mkdir settles: on success the loop issues every write and Promise.all
\* is awaited
MkdirSettles ==
    /\ pc = "awaitMkdir"
    /\ \E ok \in BOOLEAN :
        IF ~ok
        THEN /\ pc' = "rejected"
             /\ UNCHANGED <<dirs, writes, result>>
        ELSE LET ws == WriteLoop(Outdir, searchResponse.items.v, contents,
                                 1, <<>>)
             IN
             /\ dirs' = dirs \cup {Outdir}
             /\ writes' = ws
             /\ IF PromiseAllFulfilled(ws)
                THEN /\ pc' = "returned"
                     /\ result' = Success(searchResponse.total_count, page)
                ELSE /\ pc' = "awaitWrites"
                     /\ UNCHANGED result
    /\ UNCHANGED <<qualifiers, url, page, requests, inflight, response,
                   searchResponse, qKeys, remote, contents, files>>

\* the file system after writeFile(path, data) succeeded
Written(fs, path, data) ==
    [p \in DOMAIN fs \cup {path} |-> IF p = path THEN data ELSE fs[p]]

\* one write settles; the continuations of Promise.all run with it
WriteSettles ==
    /\ \E k \in DOMAIN writes, ok \in BOOLEAN :
        /\ writes[k].state = "pending"
        /\ writes' = [writes EXCEPT ![k].state =
                         IF ok THEN "fulfilled" ELSE "rejected"]
        /\ files' = IF ok THEN Written(files, writes[k].path, writes[k].data.v)
                    ELSE files
    /\ IF pc = "awaitWrites" /\ PromiseAllRejected(writes')
       THEN /\ pc' = "rejected"
            /\ UNCHANGED result
       ELSE IF pc = "awaitWrites" /\ PromiseAllFulfilled(writes')
       THEN /\ pc' = "returned"
            /\ result' = Success(searchResponse.total_count, page)
       ELSE UNCHANGED <<pc, result>>
    /\ UNCHANGED <<qualifiers, url, page, requests, inflight, response,
                   searchResponse, qKeys, remote, contents, dirs>>

Next ==
    \/ SyncSearchPage
    \/ SearchResponds
    \/ ContentsResponds
    \/ MkdirSettles
    \/ WriteSettles

Spec == Init /\ [][Next]_vars

----------------------------------------------------------------------------
(* Properties *)

IsError(x) == "kind" \in DOMAIN x /\ x.kind = "error"
IsSuccess(x) == "kind" \in DOMAIN x /\ x.kind = "success"
IsArray(x) == "t" \in DOMAIN x /\ x.t = "array"

\* the items of the page and the contents fetched for them
PageItems == searchResponse.items.v
HaveContents == IsArray(contents)
\* the loop of syncToOutdir has run
WritesIssued == Outdir \in dirs

\* the indices of the page's items with non-null content
WithContent == {i \in DOMAIN contents.v : contents.v[i] # Null}
\* the position, among the writes, of the write issued for item i
Rank(i) == Cardinality({j \in WithContent : j <= i})

\* C1: syncSearchPage short-circuits on the first error.  An error result of
\* the search is returned as it is and no batch request is sent, no
\* directory made and no file written; an error result of the content fetch
\* is returned as it is and no directory is made and no file written.
C1_ShortCircuit ==
    /\ IsError(searchResponse) =>
          /\ pc = "returned" /\ result = searchResponse
          /\ requests = <<"search/code">>
          /\ contents = None
          /\ dirs = {} /\ writes = <<>> /\ files = <<>>
    /\ IsError(contents) =>
          /\ pc = "returned" /\ result = contents
          /\ requests = <<"search/code", "graphql">>
          /\ dirs = {} /\ writes = <<>> /\ files = <<>>
    /\ IsError(result) => IsError(searchResponse) \/ IsError(contents)

C1_Witness ==
    /\ IsError(contents) /\ ~IsError(searchResponse)
    /\ result.type = "rate-limited"
    /\ Len(PageItems) = 2

\* C2: once the write loop has run, exactly one write is issued for every
\* item with non-null content and none for an item whose content is null:
\* there are as many writes as items with content, the write at an item's
\* rank targets that item's file, and after a successful sync the files of
\* the output directory are the targets of those writes.
C2_OneWritePerContent ==
    WritesIssued =>
        /\ Len(writes) = Cardinality(WithContent)
        /\ \A i \in WithContent :
              writes[Rank(i)].path = join(Outdir, Filename(PageItems[i]))
        /\ \A i \in DOMAIN PageItems :
              contents.v[i] = Null =>
                  \/ join(Outdir, Filename(PageItems[i])) \notin DOMAIN files
                  \/ \E j \in WithContent :
                        Filename(PageItems[j]) = Filename(PageItems[i])
        /\ IsSuccess(result) =>
              DOMAIN files = {writes[k].path : k \in DOMAIN writes}

C2_Witness ==
    /\ IsSuccess(result)
    /\ Len(PageItems) = 2
    /\ Cardinality(WithContent) = 1
    /\ Cardinality(DOMAIN files) = 1

\* the content the batch response holds for an item: what the repository
\* holds for the file, through ObjectText
FetchedFor(item) == ObjectText(remote.holds[item])

\* C3: item order is preserved.  The batch request holds one sub-query per
\* item, in item order, each under a key of its own; the content list has
\* the length of the item list and its i-th entry is the result of the
\* i-th item's sub-query; each write pairs the file name of an item with
\* the content fetched for that very item.
C3_OrderPreserved ==
    /\ pc = "awaitContents" =>
          /\ Len(qKeys) = Len(PageItems)
          /\ Len(inflight.query) = Len(PageItems)
          /\ \A i \in DOMAIN PageItems :
                /\ inflight.query[i].alias = qKeys[i]
                /\ Addressed(inflight.query[i]) = PageItems[i]
          /\ \A i, j \in DOMAIN qKeys : i # j => qKeys[i] # qKeys[j]
    /\ HaveContents =>
          /\ Len(contents.v) = Len(PageItems)
          /\ \A i \in DOMAIN PageItems :
                contents.v[i] = FetchedFor(PageItems[i])
    /\ WritesIssued =>
          \A i \in WithContent :
              /\ writes[Rank(i)].path = join(Outdir, Filename(PageItems[i]))
              /\ writes[Rank(i)].data = FetchedFor(PageItems[i])

C3_Witness ==
    /\ IsSuccess(result)
    /\ Len(PageItems) = 2
    /\ contents.v[1] = Str(<<"Y">>) /\ contents.v[2] = Str(<<"X">>)
    /\ files[join(Outdir, Filename(PageItems[1]))] = <<"Y">>
    /\ files[join(Outdir, Filename(PageItems[2]))] = <<"X">>

\* n is the least integer not below total_count / 100
IsCeilOfHundredth(n, total_count) ==
    /\ n * 100 >= total_count
    /\ (n - 1) * 100 < total_count

\* C4 as claimed: a success reports total = ceil(total_count / 100) and
\* remaining = total - page, the page being the supplied option, and 1 when
\* no page is specified.
C4_AsClaimed ==
    IsSuccess(result) =>
        /\ IsCeilOfHundredth(result.pages.total, searchResponse.total_count)
        /\ result.pages.remaining =
              result.pages.total - (IF page = Undefined THEN 1 ELSE page.v)

\* C4 as amended: a success reports total = ceil(total_count / 100) and
\* remaining = total - page, the page being the supplied option, and 1 when
\* no page is specified or the supplied page is 0.
C4_PageCounts ==
    IsSuccess(result) =>
        /\ IsCeilOfHundredth(result.pages.total, searchResponse.total_count)
        /\ result.pages.remaining =
              result.pages.total -
                  (IF page = Undefined \/ page = Num(0) THEN 1 ELSE page.v)

C4_Witness ==
    /\ IsSuccess(result)
    /\ page = Num(2)
    /\ searchResponse.total_count = 101
    /\ result.pages = [remaining |-> 0, total |-> 2]

\* the calendar date and time of day, in UTC, of a number of seconds since
\* the epoch: <<year, month, day, hour, minute, second>>
UTCFields(sec) ==
    LET days == sec \div 86400
        rest == sec % 86400
        z == days + 719468
        era == z \div 146097
        doe == z - era * 146097
        yoe == (doe - doe \div 1460 + doe \div 36524 - doe \div 146096) \div 365
        doy == doe - (365 * yoe + yoe \div 4 - yoe \div 100)
        mp == (5 * doy + 2) \div 153
        d == doy - (153 * mp + 2) \div 5 + 1
        m == IF mp < 10 THEN mp + 3 ELSE mp - 9
        y == yoe + era * 400 + (IF m <= 2 THEN 1 ELSE 0)
    IN <<y, m, d, rest \div 3600, (rest % 3600) \div 60, rest % 60>>

\* the epoch seconds the reset headers of the model spell
HeaderSeconds(h) ==
    IF h = Str(<<"1", "7", "0", "0", "0", "0", "0", "0", "0", "0">>)
    THEN 1700000000
    ELSE 86461

JsonContentTypes == {Str(AppJson), Str(AppJsonUtf8)}

\* C5: the response classified last decides as follows, in this order: a
\* content type that is not JSON ends the process and nothing is returned,
\* whatever the status; else status 401 returns the unauthorized error; else
\* status 403 returns the rate-limited error, whose reset is the instant the
\* x-ratelimit-reset header gives in epoch seconds (1700000000 being
\* 2023-11-14T22:13:20Z), and null without the header; any other status is
\* no error and the body is parsed.
C5_Classification ==
    response # None =>
        IF response.contentType \notin JsonContentTypes
        THEN pc = "exited" /\ result = None
        ELSE IF response.status = 401
        THEN pc = "returned" /\ result = Unauthorized
        ELSE IF response.status = 403
        THEN /\ pc = "returned"
             /\ IsError(result) /\ result.type = "rate-limited"
             /\ IF response.rateLimitReset = Null
                THEN result.reset = Null
                ELSE /\ result.reset.t = "date"
                     /\ result.reset.time =
                           [sec |-> HeaderSeconds(response.rateLimitReset),
                            ms |-> 0]
                     /\ HeaderSeconds(response.rateLimitReset) = 1700000000
                           => UTCFields(result.reset.time.sec)
                                = <<2023, 11, 14, 22, 13, 20>>
        ELSE /\ pc # "exited"
             /\ ~IsError(result)
             /\ ~IsError(searchResponse)
             /\ searchResponse \in SearchBodies \cup {MessageBody}
             /\ requests = <<"search/code", "graphql">> /\ pc # "awaitContents"
                   => ~IsError(contents)

C5_Witness ==
    /\ response # None
    /\ response.status = 403
    /\ IsError(result)
    /\ response.rateLimitReset # Null
    /\ HeaderSeconds(response.rateLimitReset) = 1700000000
    /\ requests = <<"search/code">>
    /\ UTCFields(result.reset.time.sec) = <<2023, 11, 14, 22, 13, 20>>

\* the target object of an item's sub-query was found
Found(entry) == entry # RepositoryNotFound /\ entry.object # Null

ValuesOf(entry) == IF entry.value.array THEN entry.value.v ELSE <<entry.value.v>>

\* how many values the qualifiers before the k-th hold
RECURSIVE ValuesBefore(_, _)
ValuesBefore(qs, k) ==
    IF k <= 1 THEN 0
    ELSE ValuesBefore(qs, k - 1) + Len(ValuesOf(qs[k - 1]))

\* the name:value tokens the qualifiers call for, in encounter order
ExpectedTokens(qs) ==
    [i \in 1..ValuesBefore(qs, Len(qs) + 1) |->
        LET k == CHOOSE k \in DOMAIN qs :
                     ValuesBefore(qs, k) < i /\ i <= ValuesBefore(qs, k + 1)
        IN qs[k].name \o <<":">> \o ValuesOf(qs[k])[i - ValuesBefore(qs, k)]]

\* where the i-th token starts in the tokens joined by single characters
RECURSIVE TokenStart(_, _)
TokenStart(tokens, i) ==
    IF i <= 1 THEN 1
    ELSE TokenStart(tokens, i - 1) + Len(tokens[i - 1]) + 1

\* C7: the q parameter of the search URL holds exactly one name:value token
\* per scalar value and per array element, qualifiers in mapping order and
\* elements in array order, joined by single spaces and nothing else;
\* per_page is 100 and page is 1.
C7_SearchQuery ==
    url # None =>
        LET tokens == ExpectedTokens(qualifiers)
            n == Len(tokens)
        IN
        /\ n >= 1
        /\ Len(url.q) = TokenStart(tokens, n) + Len(tokens[n]) - 1
        /\ \A i \in 1..n :
              LET start == TokenStart(tokens, i) IN
              /\ SubSeq(url.q, start, start + Len(tokens[i]) - 1) = tokens[i]
              /\ i < n => url.q[start + Len(tokens[i])] = " "
        /\ url.per_page = 100
        /\ url.page = 1

C7_Witness ==
    /\ url # None
    /\ Len(qualifiers) = 2
    /\ qualifiers[1].value.array /\ Len(qualifiers[1].value.v) = 2
    /\ ~qualifiers[2].value.array
    /\ url.q = <<"o", "r", "g", ":", "a", " ", "o", "r", "g", ":", "b", " ",
                 "4", " ", "u", "s", "e", "r", ":", "a">>

WritePhaseOver == WritesIssued /\ pc \in {"returned", "rejected"}
Settled(w) == w.state # "pending"

\* C9 as claimed: the write phase completes, by success or by failure, only
\* once every issued write has settled.
C9_AsClaimed ==
    WritePhaseOver => \A k \in DOMAIN writes : Settled(writes[k])

\* C9 as amended: all writes of the page are issued before any is awaited;
\* the phase succeeds only once every issued write has succeeded, and it
\* fails as a whole as soon as one write fails, whether or not the other
\* writes have settled.
C9_AllOrFirstFailure ==
    WritesIssued =>
        /\ Len(writes) = Cardinality(WithContent)
        /\ pc = "awaitWrites" =>
              /\ \A k \in DOMAIN writes : writes[k].state # "rejected"
              /\ \E k \in DOMAIN writes : writes[k].state = "pending"
        /\ pc = "returned" =>
              /\ IsSuccess(result)
              /\ \A k \in DOMAIN writes : writes[k].state = "fulfilled"
        /\ (\E k \in DOMAIN writes : writes[k].state = "rejected") =>
              pc = "rejected" /\ result = None
        /\ pc = "rejected" =>
              \E k \in DOMAIN writes : writes[k].state = "rejected"

C9_Witness ==
    /\ WritePhaseOver
    /\ pc = "rejected"
    /\ Len(writes) = 2
    /\ writes[1].state = "pending"
    /\ writes[2].state = "rejected"

\* C10 as claimed: the writes of one page target pairwise distinct files.
C10_AsClaimed ==
    WritesIssued =>
        \A k1, k2 \in DOMAIN writes : k1 # k2 => writes[k1].path # writes[k2].path

NoUnderscore(s) == \A c \in DOMAIN s : s[c] # "_"
UnderscoreFree(item) ==
    NoUnderscore(item.owner) /\ NoUnderscore(item.repo) /\ NoUnderscore(item.path)

\* C10 as amended: two distinct items of the page that both have non-null
\* content and whose owner, repository name and path hold no underscore are
\* written to different files.
C10_DistinctTargets ==
    WritesIssued =>
        \A i, j \in WithContent :
            (/\ i # j
             /\ UnderscoreFree(PageItems[i])
             /\ UnderscoreFree(PageItems[j]))
                => writes[Rank(i)].path # writes[Rank(j)].path

C10_Witness ==
    /\ WritesIssued
    /\ Len(writes) = 2
    /\ \A i \in DOMAIN PageItems : UnderscoreFree(PageItems[i])
    /\ \A k \in DOMAIN writes : writes[k].state = "fulfilled"
    /\ Cardinality(DOMAIN files) = 2

====
